---- MODULE Spec2Model ----
(***************************************************************************)
(* Model of src/VISTA/app.py.  The file holds two programs:                *)
(*   - lines 1-54: a Flask application (login, dashboard, student list     *)
(*     and form) over one module-level MySQL connection and cursor;        *)
(*   - lines 57-216: "project da.py", a straight-line exploratory data     *)
(*     analysis script over a pandas DataFrame.                            *)
(* SpecEDA is the script run once on a given tmdb_movies.csv; SpecConc is  *)
(* the web application serving requests on concurrent threads.             *)
(*                                                                         *)
(* Encodings.  A missing numeric cell (NaN) is -1, every present number    *)
(* being >= 0; a missing text cell is the string "NaN".  vote_average is   *)
(* kept in tenths (7.2 is 72).  revenue exceeds 32 bits (2787965087), so   *)
(* a revenue cell is a wide integer: its base-2^15 limbs, least            *)
(* significant first, without leading zero limbs (0 is <<>>); a missing    *)
(* revenue cell is <<-1>>.  Percentages and correlations are kept exactly, *)
(* as reduced fractions or as the integers whose comparison decides them.  *)
(* The histograms are binned in float64 arithmetic, as numpy bins them:    *)
(* every operation on the bin edges is rounded to 53 bits.                 *)
(***************************************************************************)
EXTENDS Integers, Sequences, FiniteSets, TLC

\* ------------------------------------------------------------------ bounds
MaxRows == 3        \* rows of a tmdb_movies.csv the script is run on
MaxDropped == 1     \* expected columns such a file can lack
MaxBins == 11       \* bin counts the histogram function is tried with
MaxStudents == 2    \* rows the Student table can grow to
MaxRequests == 3    \* requests served in one run of the web application

\* --------------------------------------------------------- wide integers
LimbBits == 15
Base == 2^LimbBits

\* floor(log2(m)) for m >= 1
RECURSIVE ILog2(_)
ILog2(m) == IF m < 2 THEN 0 ELSE 1 + ILog2(m \div 2)

RECURSIVE WNorm(_)
WNorm(a) == IF a = <<>> THEN <<>>
            ELSE IF a[Len(a)] = 0 THEN WNorm(SubSeq(a, 1, Len(a) - 1))
            ELSE a

RECURSIVE WFromInt(_)
WFromInt(i) == IF i = 0 THEN <<>> ELSE <<i % Base>> \o WFromInt(i \div Base)

RECURSIVE WAddC(_, _, _)
WAddC(a, b, c) ==
    IF a = <<>> /\ b = <<>> THEN (IF c = 0 THEN <<>> ELSE <<c>>)
    ELSE LET x == IF a = <<>> THEN 0 ELSE Head(a)
             y == IF b = <<>> THEN 0 ELSE Head(b)
             s == x + y + c
         IN  <<s % Base>> \o WAddC(IF a = <<>> THEN <<>> ELSE Tail(a),
                                   IF b = <<>> THEN <<>> ELSE Tail(b),
                                   s \div Base)

WAdd(a, b) == WAddC(a, b, 0)

\* a - b for a >= b
RECURSIVE WSubB(_, _, _)
WSubB(a, b, br) ==
    IF a = <<>> THEN <<>>
    ELSE LET y == IF b = <<>> THEN 0 ELSE Head(b)
             d == Head(a) - y - br
         IN  <<IF d < 0 THEN d + Base ELSE d>>
             \o WSubB(Tail(a), IF b = <<>> THEN <<>> ELSE Tail(b),
                      IF d < 0 THEN 1 ELSE 0)

WSub(a, b) == WNorm(WSubB(a, b, 0))

\* -1, 0, 1 as a < b, a = b, a > b
RECURSIVE WCmpTop(_, _, _)
WCmpTop(a, b, i) ==
    IF i = 0 THEN 0
    ELSE IF a[i] < b[i] THEN -1
    ELSE IF a[i] > b[i] THEN 1
    ELSE WCmpTop(a, b, i - 1)

WCmp(a, b) == IF Len(a) < Len(b) THEN -1
              ELSE IF Len(a) > Len(b) THEN 1
              ELSE WCmpTop(a, b, Len(a))

RECURSIVE WMulLimb(_, _, _)
WMulLimb(a, d, c) ==
    IF a = <<>> THEN (IF c = 0 THEN <<>> ELSE <<c>>)
    ELSE LET p == Head(a) * d + c
         IN  <<p % Base>> \o WMulLimb(Tail(a), d, p \div Base)

RECURSIVE WMul(_, _)
WMul(a, b) ==
    IF a = <<>> \/ b = <<>> THEN <<>>
    ELSE WNorm(WAdd(WMulLimb(a, Head(b), 0), <<0>> \o WMul(a, Tail(b))))

RECURSIVE WSum(_)
WSum(s) == IF s = <<>> THEN <<>> ELSE WAdd(Head(s), WSum(Tail(s)))

\* the wide integer written in groups of four decimal digits, least
\* significant first
RECURSIVE Int64(_)
Int64(g) == IF g = <<>> THEN <<>>
            ELSE WNorm(WAdd(WFromInt(Head(g)), WMulLimb(Int64(Tail(g)), 10^4, 0)))

\* ------------------------------------------------------------- DataFrame
NaN == -1
NaNW == <<-1>>
NaS == "NaN"

Columns == <<"title", "release_date", "budget", "revenue", "runtime",
             "vote_average", "genre", "director", "is_english">>

\* the columns the script selects by name
Expected == {"budget", "revenue", "runtime", "vote_average", "genre"}

Range(s) == {s[i] : i \in 1..Len(s)}

RECURSIVE SeqSum(_)
SeqSum(s) == IF s = <<>> THEN 0 ELSE Head(s) + SeqSum(Tail(s))

RECURSIVE Keep(_, _)
Keep(s, S) == IF s = <<>> THEN <<>>
              ELSE IF Head(s) \in S THEN <<Head(s)>> \o Keep(Tail(s), S)
              ELSE Keep(Tail(s), S)

\* pd.DataFrame(rows): column-wise, with the frame's length
DataFrame(cols, rows) ==
    [columns |-> cols,
     n       |-> Len(rows),
     data    |-> [c \in Range(cols) |-> [i \in 1..Len(rows) |-> rows[i][c]]]]

\* the name df before the loader binds it
Unbound == [columns |-> <<>>, n |-> 0, data |-> <<>>]

Row(t, d, b, r, rt, v, g, dr, e) ==
    [title |-> t, release_date |-> d, budget |-> b, revenue |-> r, runtime |-> rt,
     vote_average |-> v, genre |-> g, director |-> dr, is_english |-> e]

\* the dummy DataFrame of the except branch
data ==
    <<Row("Avatar",    "2009-12-18", 237000000, Int64(<<5087, 8796, 27>>), 162, 72, "Action", "James Cameron",     TRUE),
      Row("Titanic",   "1997-12-19", 200000000, Int64(<<4554, 5784, 22>>), 194, 75, "Drama",  "James Cameron",     TRUE),
      Row("Avengers",  "2012-05-04", 220000000, Int64(<<5515, 1881, 15>>), 143, 78, "Action", "Joss Whedon",       TRUE),
      Row("Joker",     "2019-10-04",  55000000, Int64(<<9000, 7421, 10>>), 122, 84, "Drama",  "Todd Phillips",     TRUE),
      Row("Inception", "2010-07-16", 160000000, Int64(<<2764, 2553, 8>>),  148, 88, "Sci-Fi", "Christopher Nolan", TRUE)>>

\* rows a tmdb_movies.csv on disk is made of
CsvRows ==
    {Row("A", "2001-01-01", 1,   <<1>>, 90,  50,  "Drama",  "P", TRUE),
     Row("B", "2002-02-02", 2,   <<2>>, 120, 72,  "Action", "Q", TRUE),
     Row("C", "2003-03-03", 3,   <<1>>, 150, 72,  "Drama",  "P", FALSE),
     Row("D", "2004-04-04", 3,   <<3>>, NaN, 88,  "Sci-Fi", NaS, TRUE),
     Row(NaS, "2005-05-05", NaN, <<2>>, 120, NaN, NaS,      "Q", FALSE),
     Row("F", NaS,          2,   NaNW,  200, 60,  "Action", "R", TRUE)}

CsvTables ==
    {DataFrame(Keep(Columns, Range(Columns) \ dropped), rows) :
        dropped \in {D \in SUBSET Expected : Cardinality(D) <= MaxDropped},
        rows \in UNION {[1..k -> CsvRows] : k \in 0..MaxRows}}

\* what is on disk at 'tmdb_movies.csv'
Files == {[kind |-> "absent", table |-> Unbound],
          [kind |-> "unparsable", table |-> Unbound]}
         \cup {[kind |-> "table", table |-> t] : t \in CsvTables}

IsNull(c, v) == IF c = "revenue" THEN v = NaNW
                ELSE IF c \in {"budget", "runtime", "vote_average"} THEN v = NaN
                ELSE IF c = "is_english" THEN FALSE
                ELSE v = NaS

\* the present cells of a column, in row order
RECURSIVE DropNa(_, _)
DropNa(c, s) == IF s = <<>> THEN <<>>
                ELSE IF IsNull(c, Head(s)) THEN DropNa(c, Tail(s))
                ELSE <<Head(s)>> \o DropNa(c, Tail(s))

HasColumns(d, cs) == cs \subseteq Range(d.columns)

\* --------------------------------------------------- statistics (pandas)
RECURSIVE GCD(_, _)
GCD(a, b) == IF b = 0 THEN a ELSE GCD(b, a % b)

\* float NaN
NaNF == [num |-> 0, den |-> 0]

\* the float a / b kept exactly; 0 / 0 is NaN
Frac(a, b) == IF b = 0 THEN NaNF
              ELSE [num |-> a \div GCD(a, b), den |-> b \div GCD(a, b)]

\* sort_values(ascending=False) on a count column, with the default
\* kind='quicksort': the rows in descending order of count.  That sort is not
\* a stable one (numpy keeps rows of equal count in order only where it falls
\* back to an insertion sort, and not where it sorts with vector
\* instructions), so the order among rows of equal count is the sort's: the
\* rows of one count are kept together as a set.
RECURSIVE Descending(_)
Descending(S) ==
    IF S = {} THEN <<>>
    ELSE LET m == CHOOSE x \in S : \A y \in S : y <= x
         IN  <<m>> \o Descending(S \ {m})

sort_values(s) ==
    LET rows   == Range(s)
        counts == Descending({r.count : r \in rows})
    IN  [k \in 1..Len(counts) |-> {r \in rows : r.count = counts[k]}]

\* the orders a set of rows can come in
RECURSIVE Perms(_)
Perms(S) ==
    IF S = {} THEN {<<>>}
    ELSE UNION {{<<x>> \o p : p \in Perms(S \ {x})} : x \in S}

\* the tables a sort can give: the rows of each count in any order
RECURSIVE Orders(_)
Orders(g) ==
    IF g = <<>> THEN {<<>>}
    ELSE {a \o b : a \in Perms(Head(g)), b \in Orders(Tail(g))}

CountOf(v, s) == Cardinality({i \in 1..Len(s) : s[i] = v})

\* the distinct values of s in first-seen order
RECURSIVE Unique(_, _)
Unique(s, seen) ==
    IF s = <<>> THEN <<>>
    ELSE IF Head(s) \in seen THEN Unique(Tail(s), seen)
    ELSE <<Head(s)>> \o Unique(Tail(s), seen \cup {Head(s)})

\* Series.value_counts(): missing values dropped, one row per distinct value,
\* sorted; the tables it can give
value_counts(c, s) ==
    LET present == DropNa(c, s)
        keys    == Unique(present, {})
    IN  Orders(sort_values([i \in 1..Len(keys) |->
                   [value |-> keys[i], count |-> CountOf(keys[i], present)]]))

\* Series.head(n)
head(s, k) == SubSeq(s, 1, IF Len(s) < k THEN Len(s) ELSE k)

HeadRows == 5

\* df.isnull().sum(), (missing_values / len(df)) * 100 and missing_df
missing_values(d) ==
    [c \in Range(d.columns) |->
        Cardinality({i \in 1..d.n : IsNull(c, d.data[c][i])})]

missing_percentage(d) ==
    [c \in Range(d.columns) |-> Frac(missing_values(d)[c] * 100, d.n)]

missing_report(d) ==
    sort_values([i \in 1..Len(d.columns) |->
        [column |-> d.columns[i],
         count  |-> missing_values(d)[d.columns[i]],
         pct    |-> missing_percentage(d)[d.columns[i]]]])

\* df.info(): the non-null count of every column
non_null(d) ==
    [c \in Range(d.columns) |-> d.n - missing_values(d)[c]]

\* ------------------------------------------------------ float64 (numpy)
\* A float64 is sign * m * 2^e with m a wide integer of at most Mantissa
\* bits.  Every operation computes its result exactly and rounds it once, to
\* nearest, ties to even.
Mantissa == 53

BitLen(a) == IF a = <<>> THEN 0
             ELSE LimbBits * (Len(a) - 1) + ILog2(a[Len(a)]) + 1

\* a * 2^s
WShl(a, s) == IF a = <<>> THEN <<>>
              ELSE [i \in 1..(s \div LimbBits) |-> 0]
                   \o WMulLimb(a, 2^(s % LimbBits), 0)

\* quotient and remainder of a by a single limb d
RECURSIVE WDivRem(_, _)
WDivRem(a, d) ==
    IF a = <<>> THEN [q |-> <<>>, r |-> 0]
    ELSE LET hi  == WDivRem(Tail(a), d)
             cur == hi.r * Base + Head(a)
         IN  [q |-> <<cur \div d>> \o hi.q, r |-> cur % d]

\* floor(a / 2^s)
WShr(a, s) ==
    WNorm(WDivRem(SubSeq(a, (s \div LimbBits) + 1, Len(a)), 2^(s % LimbBits)).q)

RECURSIVE WToInt(_)
WToInt(a) == IF a = <<>> THEN 0 ELSE Head(a) + Base * WToInt(Tail(a))

Float(s, m, e) == [s |-> IF m = <<>> THEN 1 ELSE s, m |-> m, e |-> e]

\* round to nearest, ties to even
FRound(s, m, e) ==
    IF BitLen(m) <= Mantissa THEN Float(s, m, e)
    ELSE LET sh   == BitLen(m) - Mantissa
             q    == WShr(m, sh)
             rem  == WSub(m, WShl(q, sh))
             half == WShl(<<1>>, sh - 1)
             c    == WCmp(rem, half)
             up   == c > 0 \/ (c = 0 /\ q[1] % 2 = 1)
         IN  Float(s, IF up THEN WAdd(q, <<1>>) ELSE q, e + sh)

\* a + b, not rounded
FSum(a, b) ==
    LET e  == IF a.e < b.e THEN a.e ELSE b.e
        ma == WShl(a.m, a.e - e)
        mb == WShl(b.m, b.e - e)
    IN  IF a.s = b.s THEN Float(a.s, WAdd(ma, mb), e)
        ELSE IF WCmp(ma, mb) >= 0 THEN Float(a.s, WSub(ma, mb), e)
        ELSE Float(b.s, WSub(mb, ma), e)

FNeg(a) == Float(0 - a.s, a.m, a.e)

FAdd(a, b) == LET x == FSum(a, b) IN FRound(x.s, x.m, x.e)
FSub(a, b) == FAdd(a, FNeg(b))

\* -1, 0, 1 as a < b, a = b, a > b
FCmp(a, b) == LET x == FSum(a, FNeg(b)) IN IF x.m = <<>> THEN 0 ELSE x.s

\* a * k for an integer 0 <= k < Base
FMulInt(a, k) == FRound(a.s, WNorm(WMulLimb(a.m, k, 0)), a.e)

\* a / n for an integer 0 < n < Base: the quotient to GuardBits more bits
\* than a has, and one more bit that tells whether the division left a rest
GuardBits == 5 * LimbBits

FDivInt(a, n) ==
    LET d == WDivRem(WShl(a.m, GuardBits), n)
        q == WAdd(WShl(WNorm(d.q), 1), IF d.r = 0 THEN <<>> ELSE <<1>>)
    IN  FRound(a.s, q, a.e - GuardBits - 1)

FromInt(i) == Float(IF i < 0 THEN 0 - 1 ELSE 1, WFromInt(IF i < 0 THEN 0 - i ELSE i), 0)

\* 0.5
Half == Float(1, <<1>>, 0 - 1)

\* A number handed to histplot: the float64 f, and beside it the integer
\* fix, its value in a fixed-point unit of its column, exact when tol = 0
\* and rounded down, by less than one unit, when tol = 1.
\* an int64 cell (runtime)
int64(v) == [fix |-> v, tol |-> 0, f |-> FromInt(v)]
\* a cell with one decimal (vote_average, kept in tenths): the float64 nearest
\* to t / 10
tenths(t) == [fix |-> t, tol |-> 0, f |-> FDivInt(FromInt(t), 10)]

float64(c, v) == IF c = "vote_average" THEN tenths(v) ELSE int64(v)

\* the present cells of column c as float64
RECURSIVE to_float64(_, _)
to_float64(c, s) == IF s = <<>> THEN <<>>
                    ELSE <<float64(c, Head(s))>> \o to_float64(c, Tail(s))

\* ------------------------------------------------------------- np.log1p
\* ln(1 + x) = log2(1 + x) * ln 2.  log2 is computed one bit at a time, by
\* squaring the fraction (1 + x) / 2^k held in FracBits bits, to LogBits bits;
\* the product with Ln2 lies between two neighbouring float64, below and
\* above.  The C library's log1p, which np.log1p calls, is not correctly
\* rounded: it returns one of the two, and which one depends on the argument
\* and on the library.  log1p(0) is 0.
FracBits == 10 * LimbBits
LogBits == 5 * LimbBits
FixBits == 20
LogScale == 2^FixBits

\* ln 2 in units of 2^-(6 * LimbBits)
Ln2 == <<3790, 24143, 30618, 31289, 1533, 22713>>
Ln2Bits == LimbBits * Len(Ln2)

LogStep(st) ==
    LET sq == WMul(st.m, st.m)
        m1 == SubSeq(sq, (FracBits \div LimbBits) + 1, Len(sq))
        b  == BitLen(m1) = FracBits + 2
    IN  [m |-> IF b THEN WShr(m1, 1) ELSE m1,
         y |-> WAdd(WShl(st.y, 1), IF b THEN <<1>> ELSE <<>>)]

\* n steps; a fraction of 0 stays 0
RECURSIVE LogIter(_, _)
LogIter(st, n) ==
    IF n = 0 THEN st
    ELSE IF n = 1 THEN LogStep(st)
    ELSE LET mid == LogIter(st, n \div 2)
         IN  IF mid.m = <<>> THEN mid ELSE LogIter(mid, n - (n \div 2))

\* log2(n) for an integer n >= 1, in units of 2^-LogBits
Log2(n) ==
    LET k  == ILog2(n)
        st == LogIter([m |-> WShl(WFromInt(n), FracBits - k), y |-> <<>>], LogBits)
    IN  [k |-> k, y |-> st.y]

\* m * 2^e cut to Mantissa bits, and the float64 one unit in the last place
\* above it
FBelow(m, e) ==
    IF BitLen(m) <= Mantissa THEN Float(1, m, e)
    ELSE Float(1, WShr(m, BitLen(m) - Mantissa), e + BitLen(m) - Mantissa)

FAbove(m, e) ==
    IF BitLen(m) <= Mantissa THEN Float(1, m, e)
    ELSE Float(1, WAdd(WShr(m, BitLen(m) - Mantissa), <<1>>),
               e + BitLen(m) - Mantissa)

Ln1p(x) ==
    LET l == Log2(1 + x)
        p == WMul(WAdd(WShl(WFromInt(l.k), LogBits), l.y), Ln2)
    IN  [fix   |-> l.k * LogScale + WToInt(WShr(l.y, LogBits - FixBits)),
         below |-> FBelow(p, 0 - (LogBits + Ln2Bits)),
         above |-> FAbove(p, 0 - (LogBits + Ln2Bits))]

\* Ln1p over the budgets of the frames the script is run on, computed once
Budgets == ({r.budget : r \in CsvRows} \cup {data[i].budget : i \in 1..Len(data)}) \ {NaN}
Log1pOfBudgets == {[x |-> x, y |-> Ln1p(x)] : x \in Budgets}

\* np.log1p(x) of a C library that rounds up at x (up) or down
log1p(x, up) ==
    LET l == IF x \in Budgets THEN (CHOOSE p \in Log1pOfBudgets : p.x = x).y
             ELSE Ln1p(x)
    IN  [fix |-> l.fix, tol |-> 1, f |-> IF up THEN l.above ELSE l.below]

\* the C libraries, told apart by the arguments of s they round up at
LibMs(s) == [Range(s) -> BOOLEAN]

\* np.log1p of a series, element by element
RECURSIVE log1p_series(_, _)
log1p_series(s, libm) ==
    IF s = <<>> THEN <<>>
    ELSE <<log1p(Head(s), libm[Head(s)])>> \o log1p_series(Tail(s), libm)

\* ------------------------------------------------- histogram (sns.histplot)
bins == 10

\* a <= b
Le(a, b) == \/ a.fix < b.fix
            \/ a.fix = b.fix /\ (a.tol + b.tol = 0 \/ FCmp(a.f, b.f) <= 0)

SeqMin(s) == CHOOSE x \in Range(s) : \A y \in Range(s) : Le(x, y)
SeqMax(s) == CHOOSE x \in Range(s) : \A y \in Range(s) : Le(y, x)

\* np.linspace(first, last, nb + 1)[k]: first + k * step with
\* step = (last - first) / nb, each operation rounded; the last one is last
linspace(first, last, nb, k) ==
    IF k = nb THEN last
    ELSE FAdd(FMulInt(FDivInt(FSub(last, first), nb), k), first)

\* the largest k <= top whose edge is at or below f
RECURSIVE Largest(_, _, _, _, _)
Largest(f, first, last, nb, top) ==
    IF top = 0 \/ FCmp(linspace(first, last, nb, top), f) <= 0 THEN top
    ELSE Largest(f, first, last, nb, top - 1)

\* the number of edges of np.histogram_bin_edges(x, nb, (lo, hi)) at or below
\* v, less one.  lo = hi widens the range to [lo - 0.5, hi + 0.5].  The
\* quotient (v - lo) * nb / (hi - lo) of the fixed-point values gives the
\* index wherever v is clear of an edge by more than their error; elsewhere
\* the edges np.linspace computes are compared with v.
SearchSorted(v, lo, hi, nb) ==
    IF Le(hi, lo)
    THEN IF nb % 2 = 1 THEN nb \div 2
         ELSE Largest(v.f, FSub(lo.f, Half), FAdd(hi.f, Half), nb, nb \div 2)
    ELSE LET w      == hi.fix - lo.fix
             margin == 4 * nb * (v.tol + lo.tol + hi.tol)
             num    == (v.fix - lo.fix) * nb
         IN  IF w <= 2 * margin THEN Largest(v.f, lo.f, hi.f, nb, nb)
             ELSE IF num % w > margin /\ w - (num % w) > margin THEN num \div w
             ELSE Largest(v.f, lo.f, hi.f, nb,
                          IF (num \div w) + 1 > nb THEN nb ELSE (num \div w) + 1)

\* the bin of v when every bin, the last one too, is open on the right: the
\* maximum gets index nb, which is no bin
BinOfHalfOpen(v, lo, hi, nb) == SearchSorted(v, lo, hi, nb)

\* np.histogram: nb bins of equal width, each closed on the left; the last
\* one closed on the right too
BinOf(v, lo, hi, nb) ==
    LET k == SearchSorted(v, lo, hi, nb)
    IN  IF k > nb - 1 THEN nb - 1 ELSE k

\* the bin of every value of x
RECURSIVE digitize(_, _, _, _)
digitize(x, lo, hi, nb) ==
    IF x = <<>> THEN <<>>
    ELSE <<BinOf(Head(x), lo, hi, nb)>> \o digitize(Tail(x), lo, hi, nb)

\* the bar heights histplot draws for the present values x: none for no data
histogram(x, nb) ==
    IF x = <<>> THEN <<>>
    ELSE LET bin == digitize(x, SeqMin(x), SeqMax(x), nb)
         IN  [k \in 1..nb |-> Cardinality({i \in 1..Len(bin) : bin[i] = k - 1})]

\* ------------------------------------------------ correlation (DataFrame.corr)
Numeric == <<"budget", "revenue", "runtime", "vote_average">>

Wide(c, v) == IF c = "revenue" THEN v
              ELSE IF v = NaN THEN NaNW ELSE WFromInt(v)

\* column c of d as wide integers
WideColumn(d, c) == [i \in 1..d.n |-> Wide(c, d.data[c][i])]

\* the rows where both columns hold a value
RECURSIVE PairRows(_, _, _)
PairRows(x, y, i) ==
    IF i > Len(x) THEN <<>>
    ELSE IF x[i] = NaNW \/ y[i] = NaNW THEN PairRows(x, y, i + 1)
    ELSE <<i>> \o PairRows(x, y, i + 1)

\* the coefficient without centring: sum(xy) / sqrt(sum(xx) * sum(yy))
pearson_uncentered(x, y) ==
    LET rows == PairRows(x, y, 1)
        sxx  == WSum([j \in 1..Len(rows) |-> WMul(x[rows[j]], x[rows[j]])])
        syy  == WSum([j \in 1..Len(rows) |-> WMul(y[rows[j]], y[rows[j]])])
        sxy  == WSum([j \in 1..Len(rows) |-> WMul(x[rows[j]], y[rows[j]])])
    IN  IF sxx = <<>> \/ syy = <<>>
        THEN [defined |-> FALSE, sign |-> 0, num |-> <<>>, den |-> <<>>]
        ELSE [defined |-> TRUE, sign |-> IF sxy = <<>> THEN 0 ELSE 1,
              num |-> WMul(sxy, sxy), den |-> WMul(sxx, syy)]

\* Pearson's r of x and y over their pairwise-complete rows, as the sign of
\* the covariance and the fraction r^2 = num / den; undefined (NaN) when
\* either variance is 0, which covers fewer than 2 rows
pearson(x, y) ==
    LET rows == PairRows(x, y, 1)
        m    == WFromInt(Len(rows))
        sx   == WSum([j \in 1..Len(rows) |-> x[rows[j]]])
        sy   == WSum([j \in 1..Len(rows) |-> y[rows[j]]])
        sxx  == WSum([j \in 1..Len(rows) |-> WMul(x[rows[j]], x[rows[j]])])
        syy  == WSum([j \in 1..Len(rows) |-> WMul(y[rows[j]], y[rows[j]])])
        sxy  == WSum([j \in 1..Len(rows) |-> WMul(x[rows[j]], y[rows[j]])])
        vx   == WSub(WMul(m, sxx), WMul(sx, sx))
        vy   == WSub(WMul(m, syy), WMul(sy, sy))
        a    == WMul(m, sxy)
        b    == WMul(sx, sy)
        sgn  == WCmp(a, b)
        cov  == IF sgn >= 0 THEN WSub(a, b) ELSE WSub(b, a)
    IN  IF vx = <<>> \/ vy = <<>>
        THEN [defined |-> FALSE, sign |-> 0, num |-> <<>>, den |-> <<>>]
        ELSE [defined |-> TRUE, sign |-> sgn,
              num |-> WMul(cov, cov), den |-> WMul(vx, vy)]

corr(d) ==
    [p \in Range(Numeric) \X Range(Numeric) |->
        pearson(WideColumn(d, p[1]), WideColumn(d, p[2]))]

\* |r| >= pct / 100, false of an undefined r
AbsAtLeast(r, pct) ==
    r.defined /\ WCmp(WMul(WFromInt(100 * 100), r.num),
                      WMul(WFromInt(pct * pct), r.den)) >= 0

\* r >= pct / 100
AtLeast(r, pct) == r.sign = 1 /\ AbsAtLeast(r, pct)

\* ------------------------------------------------------------------ state
VARIABLES
    \* project da.py
    file,                \* what is on disk at 'tmdb_movies.csv'
    pc,                  \* the section of the script about to run
    error,               \* the exception that ended the script, or "none"
    df,                  \* the DataFrame
    out,                 \* the lines printed that the run is judged by
    shape,               \* df.shape, as printed
    info,                \* the non-null counts df.info() prints
    missing_df,          \* the missing value report: its rows by descending
                         \* count, those of equal count together
    described,           \* the columns describe() and the box plots show
    hist,                \* the bar heights of the three histograms
    genre_counts,        \* df['genre'].value_counts()
    printed_genres,      \* its head(), as printed
    correlation_matrix,  \* numerical_df.corr()
    \* the Flask application
    debug,               \* app.debug: True when the module is run as a script
                         \* (line 54), False when a server imports it
    Student,             \* the rows of table Student, in insertion order
    committed,           \* how many of them are committed; the rest are in
                         \* the connection's open transaction
    session,             \* each browser's session cookie
    cursor,              \* the module-level cursor: its open result set
    thread,              \* each worker thread: the request it serves
    response,            \* the last response sent
    served               \* the number of requests accepted

edaVars == <<file, pc, error, df, out, shape, info, missing_df, described, hist,
             genre_counts, printed_genres, correlation_matrix>>
webVars == <<debug, Student, committed, session, cursor, thread, response, served>>
vars == <<file, pc, error, df, out, shape, info, missing_df, described, hist,
          genre_counts, printed_genres, correlation_matrix,
          debug, Student, committed, session, cursor, thread, response, served>>

\* ------------------------------------------------------ project da.py
NotFound == "Dataset not found. Using a dummy DataFrame for demonstration."
Loaded == "Data Loading Complete."
Insight1 == "1. High Correlation in Financials: Budget and Revenue show a strong positive correlation."
Insight2 == "2. Distribution Skew: Financial features are highly right-skewed due to blockbuster outliers."
Insight3 == "3. Key Genre Popularity: 'Action' and 'Drama' are the most dominant genres in the sample."
Insight4 == "4. Data Quality: Core numerical columns are complete; descriptive columns may have high missing rates."
Insight5 == "5. Runtime Profile: Most movies cluster around the 120-150 minute mark."

\* section 1: read the file; only FileNotFoundError is caught
Load ==
    /\ pc = "load"
    /\ \/ /\ file.kind = "absent"
          /\ df' = DataFrame(Columns, data)
          /\ out' = out \o <<NotFound, Loaded>>
          /\ pc' = "inspect"
          /\ error' = error
       \/ /\ file.kind = "table"
          /\ df' = file.table
          /\ out' = Append(out, Loaded)
          /\ pc' = "inspect"
          /\ error' = error
       \/ /\ file.kind = "unparsable"
          /\ pc' = "aborted"
          /\ error' = "ParserError"
          /\ UNCHANGED <<df, out>>
    /\ UNCHANGED <<file, shape, info, missing_df, described, hist, genre_counts,
                   printed_genres, correlation_matrix>>
    /\ UNCHANGED webVars

\* section 2: head, shape, info
Inspect ==
    /\ pc = "inspect"
    /\ shape' = <<df.n, Len(df.columns)>>
    /\ info' = non_null(df)
    /\ pc' = "quality"
    /\ UNCHANGED <<file, error, df, out, missing_df, described, hist, genre_counts,
                   printed_genres, correlation_matrix>>
    /\ UNCHANGED webVars

\* section 3: the missing value report, then describe() and the box plots of
\* columns selected by name (a KeyError when one is not in the frame)
Quality ==
    /\ pc = "quality"
    /\ missing_df' = missing_report(df)
    /\ IF HasColumns(df, Range(Numeric))
       THEN /\ described' = Numeric
            /\ pc' = "univariate"
            /\ error' = error
       ELSE /\ pc' = "aborted"
            /\ error' = "KeyError"
            /\ described' = described
    /\ UNCHANGED <<file, df, out, shape, info, hist, genre_counts, printed_genres,
                   correlation_matrix>>
    /\ UNCHANGED webVars

\* the three series section 4.1 draws, without their missing values
series(d, c, libm) ==
    IF c = "budget" THEN log1p_series(DropNa(c, d.data[c]), libm)
    ELSE to_float64(c, DropNa(c, d.data[c]))

\* the figures that can be made of the bar heights each column can get
Figures(drawn) ==
    {[runtime |-> r.h, vote_average |-> v.h, budget |-> b.h] :
        r \in {p \in drawn : p.c = "runtime"},
        v \in {p \in drawn : p.c = "vote_average"},
        b \in {p \in drawn : p.c = "budget"}}

\* the bar heights the three histplot calls can draw: those of the budget for
\* every C library
histograms(d) ==
    Figures(UNION {{[c |-> c, h |-> histogram(series(d, c, libm), bins)] :
                       libm \in IF c = "budget" THEN LibMs(DropNa(c, d.data[c]))
                                ELSE {<<>>}} :
                      c \in {"runtime", "vote_average", "budget"}})

\* section 4 with the log transform written back into the frame
UnivariateInPlace ==
    /\ pc = "univariate"
    /\ hist' \in histograms(df)
    /\ df' = [df EXCEPT !.data["budget"] =
                [i \in 1..df.n |-> IF df.data["budget"][i] = NaN THEN NaN
                                   ELSE log1p(df.data["budget"][i], FALSE).fix]]
    /\ IF HasColumns(df, {"genre"})
       THEN /\ genre_counts' \in value_counts("genre", df.data["genre"])
            /\ printed_genres' = head(genre_counts', HeadRows)
            /\ pc' = "bivariate"
            /\ error' = error
       ELSE /\ pc' = "aborted"
            /\ error' = "KeyError"
            /\ UNCHANGED <<genre_counts, printed_genres>>
    /\ UNCHANGED <<file, out, shape, info, missing_df, described, correlation_matrix>>
    /\ UNCHANGED webVars

\* section 4: the histograms, then the genre frequencies (a KeyError when the
\* frame has no genre column)
Univariate ==
    /\ pc = "univariate"
    /\ hist' \in histograms(df)
    /\ IF HasColumns(df, {"genre"})
       THEN /\ genre_counts' \in value_counts("genre", df.data["genre"])
            /\ printed_genres' = head(genre_counts', HeadRows)
            /\ pc' = "bivariate"
            /\ error' = error
       ELSE /\ pc' = "aborted"
            /\ error' = "KeyError"
            /\ UNCHANGED <<genre_counts, printed_genres>>
    /\ UNCHANGED <<file, df, out, shape, info, missing_df, described,
                   correlation_matrix>>
    /\ UNCHANGED webVars

\* section 5: the correlation matrix of a copy of the numeric columns
Bivariate ==
    /\ pc = "bivariate"
    /\ correlation_matrix' = corr(df)
    /\ pc' = "insights"
    /\ UNCHANGED <<file, error, df, out, shape, info, missing_df, described, hist,
                   genre_counts, printed_genres>>
    /\ UNCHANGED webVars

\* section 6: five print statements
Insights ==
    /\ pc = "insights"
    /\ out' = out \o <<Insight1, Insight2, Insight3, Insight4, Insight5>>
    /\ pc' = "done"
    /\ UNCHANGED <<file, error, df, shape, info, missing_df, described, hist,
                   genre_counts, printed_genres, correlation_matrix>>
    /\ UNCHANGED webVars

\* ------------------------------------------------- the Flask application
Browsers == {"b1", "b2"}
Threads == {"t1", "t2"}

\* table Users of database student_portal
Users == <<[table |-> "Users", username |-> "alice", password |-> "pw1"],
           [table |-> "Users", username |-> "bob", password |-> "pw2"]>>

\* what a browser posts to /login: both fields, or a form without a password
LoginForms == {[username |-> u, password |-> p] :
                  u \in {"alice", "bob", "eve"}, p \in {"pw1", "pw2"}}
              \cup {[username |-> "alice"]}

\* what a browser posts to /add_student: all six fields, or a form without them
StudentForms ==
    {[name |-> n, dob |-> "2000-01-01", email |-> "e", phone |-> "1",
      address |-> "a", course |-> c] : n \in {"ann", "ben"}, c \in {"cs"}}
    \cup {[name |-> "ann"]}

NoForm == <<>>

Request(b, route, method, form) ==
    [browser |-> b, route |-> route, method |-> method, form |-> form]

Response(req, status, body, payload) ==
    [browser |-> req.browser, route |-> req.route, method |-> req.method,
     form |-> req.form, status |-> status, body |-> body, payload |-> payload]

redirect(req, location) == Response(req, 302, location, <<>>)
render_template(req, page, payload) == Response(req, 200, page, payload)
\* request.form[k] of a field the form lacks raises BadRequestKeyError.
\* TRAP_BAD_REQUEST_ERRORS is not set, which means: trapped in debug mode.
\* Trapped, the exception is an unhandled one and the answer is the
\* debugger's page with status 500; otherwise it is the 400 page.
BadRequest(req, dbg) ==
    Response(req, IF dbg THEN 500 ELSE 400, "BadRequestKeyError", <<>>)
\* an exception of the database driver
ServerError(req, exc) == Response(req, 500, exc, <<>>)

\* the cursor with no result set open
NoResult == [open |-> FALSE, rows |-> <<>>]

\* cursor.execute of a SELECT: its result set is open on the cursor until read
execute(rows) == [open |-> TRUE, rows |-> rows]

\* cursor.fetchone(): the next row of the open result set, None (<<>>) when
\* there is none; reading the last row closes the result set
fetchone(cur) ==
    [row    |-> IF cur.open /\ cur.rows # <<>> THEN <<Head(cur.rows)>> ELSE <<>>,
     cursor |-> IF cur.open /\ Len(cur.rows) > 1
                THEN [open |-> TRUE, rows |-> Tail(cur.rows)]
                ELSE NoResult]

\* cursor.fetchall(): every unread row of the open result set
fetchall(cur) ==
    [rows |-> IF cur.open THEN cur.rows ELSE <<>>, cursor |-> NoResult]

\* SELECT * FROM Users WHERE username=%s AND password=%s
RECURSIVE SelectWhere(_, _, _)
SelectWhere(rows, uname, pwd) ==
    IF rows = <<>> THEN <<>>
    ELSE IF Head(rows).username = uname /\ Head(rows).password = pwd
         THEN <<Head(rows)>> \o SelectWhere(Tail(rows), uname, pwd)
         ELSE SelectWhere(Tail(rows), uname, pwd)

select_users(form) == SelectWhere(Users, form.username, form.password)

\* INSERT INTO Student(name,dob,email,phone,address,course) VALUES(...)
insert_student(rows, form) ==
    Append(rows, [table |-> "Student", name |-> form.name, dob |-> form.dob,
                  email |-> form.email, phone |-> form.phone,
                  address |-> form.address, course |-> form.course])

\* login, lines 20-24: what follows user = cursor.fetchone()
login_user(req, sess, user) ==
    IF user # <<>>
    THEN [session  |-> [sess EXCEPT ![req.browser] = [user |-> user[1]]],
          response |-> redirect(req, "/dashboard")]
    ELSE [session  |-> sess,
          response |-> render_template(req, "login.html", <<>>)]

\* dashboard, lines 27-30
dashboard(req, sess) ==
    IF "user" \notin DOMAIN sess[req.browser]
    THEN redirect(req, "/login")
    ELSE render_template(req, "dashboard.html", <<sess[req.browser].user>>)

Idle == [pc |-> "idle", request |-> <<>>]

InitWebVars ==
    /\ Student = <<>>
    /\ committed = 0
    /\ session = [b \in Browsers |-> <<>>]
    /\ cursor = NoResult
    /\ thread = [t \in Threads |-> Idle]
    /\ response = <<>>
    /\ served = 0

\* ---- the handlers that use neither db nor cursor: one step each
Home(b) ==
    /\ served < MaxRequests
    /\ served' = served + 1
    /\ response' = redirect(Request(b, "/", "GET", NoForm), "/login")
    /\ UNCHANGED <<debug, Student, committed, session, cursor, thread>>
    /\ UNCHANGED edaVars

LoginGet(b) ==
    /\ served < MaxRequests
    /\ served' = served + 1
    /\ response' = render_template(Request(b, "/login", "GET", NoForm), "login.html", <<>>)
    /\ UNCHANGED <<debug, Student, committed, session, cursor, thread>>
    /\ UNCHANGED edaVars

Dashboard(b) ==
    /\ served < MaxRequests
    /\ served' = served + 1
    /\ response' = dashboard(Request(b, "/dashboard", "GET", NoForm), session)
    /\ UNCHANGED <<debug, Student, committed, session, cursor, thread>>
    /\ UNCHANGED edaVars

AddStudentGet(b) ==
    /\ served < MaxRequests
    /\ served' = served + 1
    /\ response' = render_template(Request(b, "/add_student", "GET", NoForm),
                                   "add_student.html", <<>>)
    /\ UNCHANGED <<debug, Student, committed, session, cursor, thread>>
    /\ UNCHANGED edaVars

InitNoEDA ==
    /\ file = [kind |-> "absent", table |-> Unbound]
    /\ pc = "load"
    /\ error = "none"
    /\ df = Unbound
    /\ out = <<>>
    /\ shape = <<>>
    /\ info = <<>>
    /\ missing_df = <<>>
    /\ described = <<>>
    /\ hist = <<>>
    /\ genre_counts = <<>>
    /\ printed_genres = <<>>
    /\ correlation_matrix = <<>>

\* The module is served either as a script, where line 54 turns debug mode
\* on, or imported by a server, where app.debug keeps its default.
InitWeb == InitNoEDA /\ debug \in BOOLEAN /\ InitWebVars

\* ---- the handlers that use the cursor.  The server (app.run's development
\* ---- server, or a threaded server importing the module) hands each request
\* ---- to a thread of its own, and the threads share db and cursor without a lock.
\* ---- A thread is scheduled between its statement and its fetch.
\* ---- A statement executed while another thread's result set is still unread
\* ---- either raises InternalError("Unread result found") or, when the two
\* ---- statements reach the connection before either result is read, leaves
\* ---- the cursor holding a result set the earlier thread did not ask for.
Receive(t, b) ==
    /\ thread[t].pc = "idle"
    /\ served < MaxRequests
    /\ served' = served + 1
    /\ \/ \E form \in LoginForms :
            thread' = [thread EXCEPT ![t] =
                [pc |-> "login", request |-> Request(b, "/login", "POST", form)]]
       \/ thread' = [thread EXCEPT ![t] =
                [pc |-> "students", request |-> Request(b, "/students", "GET", NoForm)]]
       \/ /\ Len(Student) + Cardinality({u \in Threads : thread[u].pc = "add_student"})
                < MaxStudents
          /\ \E form \in StudentForms :
                thread' = [thread EXCEPT ![t] =
                    [pc |-> "add_student",
                     request |-> Request(b, "/add_student", "POST", form)]]
    /\ UNCHANGED <<debug, Student, committed, session, cursor, response>>
    /\ UNCHANGED edaVars

\* login, lines 17-19
LoginExecute(t) ==
    LET req == thread[t].request IN
    /\ thread[t].pc = "login"
    /\ \/ /\ DOMAIN req.form # {"username", "password"}
          /\ response' = BadRequest(req, debug)
          /\ thread' = [thread EXCEPT ![t] = Idle]
          /\ cursor' = cursor
       \/ /\ DOMAIN req.form = {"username", "password"}
          /\ ~cursor.open
          /\ cursor' = execute(select_users(req.form))
          /\ thread' = [thread EXCEPT ![t].pc = "login_fetch"]
          /\ response' = response
       \/ /\ DOMAIN req.form = {"username", "password"}
          /\ cursor.open
          /\ response' = ServerError(req, "InternalError: Unread result found")
          /\ thread' = [thread EXCEPT ![t] = Idle]
          /\ cursor' = cursor
       \/ /\ DOMAIN req.form = {"username", "password"}
          /\ cursor.open
          /\ cursor' = execute(select_users(req.form))
          /\ thread' = [thread EXCEPT ![t].pc = "login_fetch"]
          /\ response' = response
    /\ UNCHANGED <<debug, Student, committed, session, served>>
    /\ UNCHANGED edaVars

\* login, lines 20-24
LoginFetch(t) ==
    LET req == thread[t].request
        got == fetchone(cursor)
        res == login_user(req, session, got.row)
    IN  /\ thread[t].pc = "login_fetch"
        /\ cursor' = got.cursor
        /\ session' = res.session
        /\ response' = res.response
        /\ thread' = [thread EXCEPT ![t] = Idle]
        /\ UNCHANGED <<debug, Student, committed, served>>
        /\ UNCHANGED edaVars

\* students, line 34
StudentsExecute(t) ==
    LET req == thread[t].request IN
    /\ thread[t].pc = "students"
    /\ \/ /\ ~cursor.open
          /\ cursor' = execute(Student)
          /\ thread' = [thread EXCEPT ![t].pc = "students_fetch"]
          /\ response' = response
       \/ /\ cursor.open
          /\ response' = ServerError(req, "InternalError: Unread result found")
          /\ thread' = [thread EXCEPT ![t] = Idle]
          /\ cursor' = cursor
       \/ /\ cursor.open
          /\ cursor' = execute(Student)
          /\ thread' = [thread EXCEPT ![t].pc = "students_fetch"]
          /\ response' = response
    /\ UNCHANGED <<debug, Student, committed, session, served>>
    /\ UNCHANGED edaVars

\* students, lines 35-36; fetchall with no result set open returns [] or
\* raises InterfaceError, as the driver's version has it
StudentsFetch(t) ==
    LET req == thread[t].request
        got == fetchall(cursor)
    IN  /\ thread[t].pc = "students_fetch"
        /\ \/ /\ cursor' = got.cursor
              /\ response' = render_template(req, "students.html", got.rows)
           \/ /\ ~cursor.open
              /\ cursor' = cursor
              /\ response' = ServerError(req, "InterfaceError: No result set to fetch from")
        /\ thread' = [thread EXCEPT ![t] = Idle]
        /\ UNCHANGED <<debug, Student, committed, session, served>>
        /\ UNCHANGED edaVars

\* add_student, lines 41-48: the form fields, then the INSERT
AddStudentExecute(t) ==
    LET req == thread[t].request IN
    /\ thread[t].pc = "add_student"
    /\ \/ /\ DOMAIN req.form # {"name", "dob", "email", "phone", "address", "course"}
          /\ response' = BadRequest(req, debug)
          /\ thread' = [thread EXCEPT ![t] = Idle]
          /\ UNCHANGED <<Student, cursor>>
       \/ /\ DOMAIN req.form = {"name", "dob", "email", "phone", "address", "course"}
          /\ ~cursor.open
          /\ Student' = insert_student(Student, req.form)
          /\ cursor' = NoResult
          /\ thread' = [thread EXCEPT ![t].pc = "add_student_commit"]
          /\ response' = response
       \/ /\ DOMAIN req.form = {"name", "dob", "email", "phone", "address", "course"}
          /\ cursor.open
          /\ response' = ServerError(req, "InternalError: Unread result found")
          /\ thread' = [thread EXCEPT ![t] = Idle]
          /\ UNCHANGED <<Student, cursor>>
       \/ /\ DOMAIN req.form = {"name", "dob", "email", "phone", "address", "course"}
          /\ cursor.open
          /\ Student' = insert_student(Student, req.form)
          /\ cursor' = NoResult
          /\ thread' = [thread EXCEPT ![t].pc = "add_student_commit"]
          /\ response' = response
    /\ UNCHANGED <<debug, committed, session, served>>
    /\ UNCHANGED edaVars

\* add_student, lines 49-50: db.commit() commits every row inserted on the
\* connection, this thread's and any other's; with another thread's result
\* set unread it raises InternalError("Unread result found") and the row
\* stays inserted and uncommitted, or it reaches the connection before the
\* result is seen and commits
AddStudentCommit(t) ==
    LET req == thread[t].request IN
    /\ thread[t].pc = "add_student_commit"
    /\ \/ /\ ~cursor.open
          /\ committed' = Len(Student)
          /\ response' = redirect(req, "/students")
       \/ /\ cursor.open
          /\ committed' = committed
          /\ response' = ServerError(req, "InternalError: Unread result found")
       \/ /\ cursor.open
          /\ committed' = Len(Student)
          /\ response' = redirect(req, "/students")
    /\ thread' = [thread EXCEPT ![t] = Idle]
    /\ UNCHANGED <<debug, Student, session, cursor, served>>
    /\ UNCHANGED edaVars

NextConc ==
    \/ \E b \in Browsers :
          \/ Home(b)
          \/ LoginGet(b)
          \/ Dashboard(b)
          \/ AddStudentGet(b)
    \/ \E t \in Threads :
        \/ \E b \in Browsers : Receive(t, b)
        \/ LoginExecute(t)
        \/ LoginFetch(t)
        \/ StudentsExecute(t)
        \/ StudentsFetch(t)
        \/ AddStudentExecute(t)
        \/ AddStudentCommit(t)

SpecConc == InitWeb /\ [][NextConc]_vars

InitEDA ==
    /\ file \in Files
    /\ pc = "load"
    /\ error = "none"
    /\ df = Unbound
    /\ out = <<>>
    /\ shape = <<>>
    /\ info = <<>>
    /\ missing_df = <<>>
    /\ described = <<>>
    /\ hist = <<>>
    /\ genre_counts = <<>>
    /\ printed_genres = <<>>
    /\ correlation_matrix = <<>>
    /\ debug = TRUE
    /\ InitWebVars

NextEDA == Load \/ Inspect \/ Quality \/ Univariate \/ Bivariate \/ Insights

SpecEDA == InitEDA /\ [][NextEDA]_vars

\* ================================================================ claims
\* the spec's default correlation threshold of insight rule 1 (0.7), in percent
CorrThresholdPct == 70

BudgetRevenue == correlation_matrix[<<"budget", "revenue">>]

\* section 3.1 has run
QualityRan == \/ pc \in {"univariate", "bivariate", "insights", "done"}
              \/ pc = "aborted" /\ error = "KeyError"

\* section 4.1 has run
HistogramsDrawn == hist # <<>>

\* section 4.2 has run
GenresCounted == pc \in {"bivariate", "insights", "done"}

\* C1: at the end of a run, the rule-1 finding is among the printed insights
\* exactly when |corr(budget, revenue)| >= 0.7.
C1_Rule1IffCorrelated ==
    pc = "done" =>
        ((Insight1 \in Range(out)) <=> AbsAtLeast(BudgetRevenue, CorrThresholdPct))

\* C2: when the file is absent or unparsable, the loader prints the
\* diagnostic, binds df to the 5-row sample and the run goes on.
C2_LoaderFailsSoft ==
    (file.kind \in {"absent", "unparsable"} /\ pc # "load") =>
        /\ pc # "aborted"
        /\ NotFound \in Range(out)
        /\ df = DataFrame(Columns, data)

\* C3: a loaded table that lacks one of budget, revenue, runtime,
\* vote_average, genre never ends the run with an exception.
C3_SchemaGapNeverFatal ==
    (file.kind = "table" /\ ~HasColumns(file.table, Expected)) => pc # "aborted"

\* C4 as stated: on the 5-row sample corr(budget, revenue) is strongly
\* positive, at or above the 0.7 threshold, and the rule-1 finding is printed.
C4_SampleStronglyCorrelated ==
    (file.kind = "absent" /\ pc = "done") =>
        /\ AtLeast(BudgetRevenue, CorrThresholdPct)
        /\ Insight1 \in Range(out)

\* C4 as amended: on the 5-row sample corr(budget, revenue) is positive, at
\* least 0.67 and below 0.68 (so below the 0.7 threshold), and the rule-1
\* finding is printed.
C4_SampleCorrelation ==
    (file.kind = "absent" /\ pc = "done") =>
        /\ AtLeast(BudgetRevenue, 67)
        /\ ~AtLeast(BudgetRevenue, 68)
        /\ ~AtLeast(BudgetRevenue, CorrThresholdPct)
        /\ Insight1 \in Range(out)

C4_Witness ==
    /\ file.kind = "absent"
    /\ pc = "done"
    /\ df.n = 5
    /\ BudgetRevenue.defined

\* C5: every row of the missing value report holds the column's missing count
\* and the percentage count / n * 100, which is 0 when the frame has no rows.
C5_MissingPercentage ==
    QualityRan =>
        \A i \in 1..Len(missing_df) :
            \A row \in missing_df[i] :
                LET c == row.column
                    k == Cardinality({j \in 1..df.n : IsNull(c, df.data[c][j])})
                IN  /\ row.count = k
                    /\ row.pct = IF df.n = 0 THEN Frac(0, 1)
                                 ELSE Frac(k * 100, df.n)

FirstSeen(v, s) == CHOOSE i \in 1..Len(s) : s[i] = v /\ \A j \in 1..(i - 1) : s[j] # v

BudgetSeries ==
    {DropNa("budget", DataFrame(Columns, data).data["budget"])}
    \cup UNION {[1..k -> {r.budget : r \in CsvRows} \ {NaN}] : k \in 0..MaxRows}

\* for each of them, the sums of the bar heights its log1p gets with every C
\* library and every bin count from 1 to MaxBins, computed once
Log1pHistogramSums ==
    {[x    |-> s,
      sums |-> {SeqSum(histogram(log1p_series(s, libm), nb)) :
                    libm \in LibMs(s), nb \in 1..MaxBins}] : s \in BudgetSeries}

\* C7: the bar heights of each histogram drawn add up to the number of present
\* values of its column, and, as section 4 ends, so do those the same column
\* gets with every bin count from 1 to MaxBins, whichever way the C library
\* rounds log1p.
C7_HistogramSum ==
    HistogramsDrawn =>
        \A c \in {"runtime", "vote_average", "budget"} :
            LET x       == DropNa(c, df.data[c])
                drawn   == to_float64(c, x)
                present == Cardinality({i \in 1..df.n : ~IsNull(c, df.data[c][i])})
            IN  /\ SeqSum(hist[c]) = present
                /\ pc = "bivariate" =>
                       IF c = "budget"
                       THEN (CHOOSE e \in Log1pHistogramSums : e.x = x).sums = {present}
                       ELSE \A nb \in 1..MaxBins :
                                SeqSum(histogram(drawn, nb)) = present

\* a runtime column with a missing value and two different present ones, the
\* largest counted in the last bin
C7_Witness ==
    /\ HistogramsDrawn
    /\ NaN \in Range(df.data["runtime"])
    /\ Len(DropNa("runtime", df.data["runtime"])) = 2
    /\ hist["runtime"][1] = 1
    /\ hist["runtime"][bins] = 1

\* C8: from the end of loading to the end of the run, df is the frame the
\* loader built: the file's table, or the 5-row sample.
C8_DatasetImmutable ==
    (pc # "load" /\ error # "ParserError") =>
        df = IF file.kind = "absent" THEN DataFrame(Columns, data) ELSE file.table

\* a run over a table with missing cells has finished
C8_Witness ==
    /\ pc = "done"
    /\ file.kind = "table"
    /\ df.n = MaxRows
    /\ NaN \in Range(df.data["budget"])
    /\ df = file.table

\* C9: every step leaves /dashboard answered with the dashboard page only to
\* a session holding 'user' and with a redirect to /login otherwise; and a
\* step changes a session only by answering a POST /login of that browser
\* whose username and password match a row of Users, adding 'user' to it.
C9_SessionGate ==
    [][/\ response' # <<>> /\ response'.route = "/dashboard" =>
            IF "user" \in DOMAIN session'[response'.browser]
            THEN /\ response'.body = "dashboard.html"
                 /\ response'.payload = <<session'[response'.browser].user>>
            ELSE response'.status = 302 /\ response'.body = "/login"
       /\ \A b \in Browsers :
            session'[b] # session[b] =>
                /\ response'.browser = b
                /\ response'.route = "/login"
                /\ response'.method = "POST"
                /\ "user" \in DOMAIN session'[b]
                /\ select_users(response'.form) # <<>>]_vars

\* C10: with requests served concurrently, a login that succeeds stores a
\* Users row matching the username and password it submitted, and the student
\* list holds rows of table Student only.
C10_CursorIsolation ==
    /\ \A b \in Browsers :
           "user" \in DOMAIN session[b] => session[b].user \in Range(Users)
    /\ (response # <<>> /\ response.route = "/login" /\ response.status = 302) =>
           /\ session[response.browser].user.username = response.form.username
           /\ session[response.browser].user.password = response.form.password
    /\ (response # <<>> /\ response.route = "/students" /\ response.status = 200) =>
           \A i \in 1..Len(response.payload) : response.payload[i].table = "Student"

====
